---- MODULE Spec2Model ----
(***************************************************************************)
(* The logging core of exampleserver (package logger): the Logger with its *)
(* plugin registry and asynchronous deliveries, the process-wide default   *)
(* logger, and the log retrieval handler.                                  *)
(***************************************************************************)
EXTENDS Integers, Sequences, FiniteSets, Bags, TLC

(***************************************************************************)
(* Bounds of the model.                                                    *)
(***************************************************************************)
\* emitting calls (Debug/Info/Warn/Error/Fatal) started in one run
MaxCalls == 1
\* AddPlugin / RemovePlugin calls started in one run
MaxOps == 2

\* hours (every other one) at which a line is written and read back
MaxStamp == 12

\* goroutines that call l.logger.Printf at the same time
MaxWriters == 3
\* write calls the bytes of one line take to reach the file
MaxChunks == 2

\* goroutines of the collaborators that call the emission API
Emitters == {"e1"}

(***************************************************************************)
(* Text.  A Go string is a sequence of characters; strings.Contains and    *)
(* strings.EqualFold are computed on it.                                   *)
(***************************************************************************)
Contains(s, substr) ==
    \E i \in 0..(Len(s) - Len(substr)) : SubSeq(s, i + 1, i + Len(substr)) = substr

ToUpper(c) ==
    CASE c = "d" -> "D" [] c = "e" -> "E" [] c = "i" -> "I"
      [] c = "w" -> "W" [] c = "f" -> "F" [] OTHER -> c

EqualFold(s, t) ==
    /\ Len(s) = Len(t)
    /\ \A i \in 1..Len(s) : ToUpper(s[i]) = ToUpper(t[i])

\* the level strings the Logger's methods pass to logWithSource; one
\* character stands for each of DEBUG, INFO, WARN, ERROR, FATAL
DEBUG == <<"D">>
INFO == <<"I">>
WARN == <<"W">>
ERROR == <<"E">>
FATAL == <<"F">>
Levels == {DEBUG, INFO, WARN, ERROR, FATAL}

(***************************************************************************)
(* LogEntry, LogFilter and the plugins.                                    *)
(***************************************************************************)
\* an optional time (*time.Time): <<>> is nil, <<t>> is set
NoTime == <<>>
\* an empty map
NoFields == <<>>
\* a map of one key
Field(key, value) == [k \in {key} |-> value]

LogEntry(ts, level, msg, source, line) ==
    [Timestamp |-> ts, Level |-> level, Message |-> msg,
     Source |-> source, Line |-> line, Fields |-> NoFields]

NoEntry == LogEntry(0, <<>>, <<>>, <<>>, 0)

LogFilter(levels, sources, contains, startTime, endTime, fieldMatch) ==
    [Levels |-> levels, Sources |-> sources, Contains |-> contains,
     StartTime |-> startTime, EndTime |-> endTime, FieldMatch |-> fieldMatch]

\* The plugins of the model.  A and B are webhook plugins with a URL, A with
\* an empty filter, B with the filter levels: [error] and F with the filter
\* fieldMatch: {k: 1}; U is a webhook plugin whose URL is empty; X is a
\* LogPlugin of another kind, which handles every entry and whose Close
\* returns an error.
Plugins == {"A", "B", "F", "U", "X"}

IsWebhook(p) == p \in {"A", "B", "F", "U"}

URL(p) == IF p = "U" THEN <<>> ELSE <<"h">>

Filter(p) ==
    IF p = "B"
    THEN LogFilter(<<(<<"e">>)>>, <<>>, <<>>, NoTime, NoTime, NoFields)
    ELSE IF p = "F"
    THEN LogFilter(<<>>, <<>>, <<>>, NoTime, NoTime, Field("k", 1))
    ELSE LogFilter(<<>>, <<>>, <<>>, NoTime, NoTime, NoFields)

\* a message that contains one of the listed substrings passes
WebhookShouldHandleAnyOf(f, entry) ==
    /\ Len(f.Levels) > 0 =>
          \E i \in 1..Len(f.Levels) : EqualFold(entry.Level, f.Levels[i])
    /\ Len(f.Sources) > 0 =>
          \E i \in 1..Len(f.Sources) : Contains(entry.Source, f.Sources[i])
    /\ Len(f.Contains) > 0 =>
          \E i \in 1..Len(f.Contains) : Contains(entry.Message, f.Contains[i])
    /\ ~(f.StartTime # NoTime /\ entry.Timestamp < f.StartTime[1])
    /\ ~(f.EndTime # NoTime /\ entry.Timestamp > f.EndTime[1])
    /\ \A key \in DOMAIN f.FieldMatch :
          key \in DOMAIN entry.Fields /\ entry.Fields[key] = f.FieldMatch[key]

\* WebhookPlugin.ShouldHandle
WebhookShouldHandle(f, entry) ==
    /\ Len(f.Levels) > 0 =>
          \E i \in 1..Len(f.Levels) : EqualFold(entry.Level, f.Levels[i])
    /\ Len(f.Sources) > 0 =>
          \E i \in 1..Len(f.Sources) : Contains(entry.Source, f.Sources[i])
    /\ \A i \in 1..Len(f.Contains) : Contains(entry.Message, f.Contains[i])
    /\ ~(f.StartTime # NoTime /\ entry.Timestamp < f.StartTime[1])
    /\ ~(f.EndTime # NoTime /\ entry.Timestamp > f.EndTime[1])
    /\ \A key \in DOMAIN f.FieldMatch :
          key \in DOMAIN entry.Fields /\ entry.Fields[key] = f.FieldMatch[key]

\* LogPlugin.ShouldHandle
ShouldHandle(p, entry) ==
    IF IsWebhook(p) THEN WebhookShouldHandle(Filter(p), entry) ELSE TRUE

\* LogPlugin.Initialize: TRUE when it returns an error
InitializeFails(p) == IsWebhook(p) /\ URL(p) = <<>>

\* LogPlugin.Close: TRUE when it returns an error
CloseFails(p) == ~IsWebhook(p)

(***************************************************************************)
(* The state.                                                              *)
(***************************************************************************)
VARIABLES
    heap,        \* the backing arrays of the slices of plugins the program made
    plugins,     \* l.plugins: a slice header [arr, len] (arr = 0: the nil slice)
    mu,          \* l.mu: [w: a writer holds it, r: the number of readers]
    debug,       \* l.debug
    file,        \* the lines l.logger has written, in order
    now,         \* the clock: the number of entries built so far
    calls,       \* per emitting call, its level and, of a Debug call, the l.debug it read
    em,          \* the emitting goroutines
    deliveries,  \* the bag of delivery goroutines that have not finished
    handed,      \* per (plugin, entry), the deliveries started (go statements)
    handleCalls, \* per (plugin, entry), the invocations of Handle
    failures,    \* the invocations of Handle that returned an error
    adm,         \* the goroutine that calls AddPlugin and RemovePlugin
    closed,      \* per plugin, the calls of Close
    exited,      \* os.Exit has run
    defaultLogger, \* the package variable defaultLogger is not nil
    once,        \* the package variable once: [done, m: the goroutine in doSlow]
    ini,         \* the goroutines that call Initialize
    runs,        \* how often the body of once.Do and New have run
    defaults,    \* the outcomes of the calls of Default
    request,     \* the request GetLogs serves
    logFile,     \* the log file: its lines, and whether it opens and reads
    clock,       \* time.Now() and the offset of the local time zone
    response,    \* the response of GetLogs
    srv,         \* a request to the server, from the router to its response
    match,       \* a call of WebhookPlugin.ShouldHandle: its filter, entry and result
    stamp,       \* a line from l.logger.Printf to extractTimestamp
    out          \* l.logger: its mutex, its writers' calls, and the bytes of the file

\* the package's default logger and the calls of Initialize and Default
initVars == <<defaultLogger, once, ini, runs, defaults>>

\* a request to GET/POST /logs, the log file it reads and its response
httpVars == <<request, logFile, clock, response, srv>>

\* the calls of the functions that are checked on their own
fnVars == <<match, stamp, out>>

\* the state the steps of the logger leave alone
others == <<initVars, httpVars, fnVars>>

vars == <<heap, plugins, mu, debug, file, now, calls, em, deliveries, handed,
          handleCalls, failures, adm, closed, exited, initVars, httpVars, fnVars>>

(***************************************************************************)
(* Slices.                                                                 *)
(***************************************************************************)
NilSlot == "-"
NilSlice == [arr |-> 0, len |-> 0]

Cap(h, s) == IF s.arr = 0 THEN 0 ELSE Len(h[s.arr])

\* the elements of slice s
Elems(h, s) == IF s.arr = 0 THEN <<>> ELSE SubSeq(h[s.arr], 1, s.len)

Range(q) == {q[i] : i \in 1..Len(q)}

Count(x, q) == Cardinality({i \in 1..Len(q) : q[i] = x})

\* append(s, x): in place when the capacity allows, else into a new array of
\* twice the capacity.  The result is <<heap, slice>>.
GoAppend(h, s, x) ==
    IF s.len < Cap(h, s)
    THEN <<[h EXCEPT ![s.arr][s.len + 1] = x], [arr |-> s.arr, len |-> s.len + 1]>>
    ELSE LET newcap == IF Cap(h, s) = 0 THEN 1 ELSE 2 * Cap(h, s)
             fresh == [i \in 1..newcap |->
                          IF i <= s.len THEN h[s.arr][i]
                          ELSE IF i = s.len + 1 THEN x ELSE NilSlot]
         IN  <<Append(h, fresh), [arr |-> Len(h) + 1, len |-> s.len + 1]>>

\* AddPlugin of each configured webhook whose URL is not empty, as Initialize
\* does after New
RECURSIVE AddAll(_, _, _)
AddAll(h, s, webhooks) ==
    IF webhooks = <<>> THEN <<h, s>>
    ELSE IF URL(Head(webhooks)) = <<>> THEN AddAll(h, s, Tail(webhooks))
    ELSE LET r == GoAppend(h, s, Head(webhooks))
         IN  AddAll(r[1], r[2], Tail(webhooks))

\* the webhooks of the configurations of the model
Configs == {<<>>, <<"A", "B">>}

\* the registered plugins, in order
Registry == Elems(heap, plugins)


(***************************************************************************)
(* The emitting goroutines: Debug/Info/Warn/Error/Fatal and logWithSource. *)
(***************************************************************************)
\* the levels of the calls of the model other than Debug (Warn differs from
\* Info in the level string alone)
EmitLevels == {INFO, ERROR, FATAL}

IdleEmitter ==
    [pc |-> "idle", level |-> <<>>, call |-> 0, entry |-> NoEntry,
     snap |-> NilSlice, idx |-> 0,
     snapReg |-> <<>>, read |-> <<>>, present |-> {}, absent |-> {}]

\* the plugin a running AddPlugin or RemovePlugin call is about
InOperation == IF adm.pc = "idle" THEN {} ELSE {adm.p}

\* An emitting call starts.  For the claims, the record of a call keeps the
\* registry as it was when the snapshot was taken (snapReg), the plugins the
\* loop has read (read), and the plugins that have been registered (present)
\* or not registered (absent) ever since the call started: a plugin whose
\* AddPlugin or RemovePlugin call has not returned yet is in neither.
StartCall(e, level) ==
    [IdleEmitter EXCEPT !.pc = "log", !.level = level, !.call = Len(calls) + 1,
                        !.present = Range(Registry) \ InOperation,
                        !.absent = (Plugins \ Range(Registry)) \ InOperation]

\* the message of a call: every call of the model logs a message of its own
MessageOf(call) == <<ToString(call)>>

\* a Debug that logs whatever l.debug is
DebugDroppedNever(l_debug) == FALSE

\* Logger.Debug: TRUE when the call returns without logging
DebugDropped(l_debug) == ~l_debug

\* Logger.Debug
Debug(e) ==
    /\ ~exited
    /\ em[e].pc = "idle"
    /\ Len(calls) < MaxCalls
    /\ calls' = Append(calls, [level |-> DEBUG, enabled |-> debug, fields |-> NoFields])
    /\ em' = IF DebugDropped(debug) THEN em
             ELSE [em EXCEPT ![e] = StartCall(e, DEBUG)]
    /\ UNCHANGED <<heap, plugins, mu, debug, file, now, deliveries, handed,
                   handleCalls, failures, adm, closed, exited>>
    /\ UNCHANGED others

\* Logger.Info, Logger.Warn, Logger.Error, Logger.Fatal
Emit(e, level) ==
    /\ ~exited
    /\ em[e].pc = "idle"
    /\ Len(calls) < MaxCalls
    /\ calls' = Append(calls, [level |-> level, enabled |-> TRUE, fields |-> NoFields])
    /\ em' = [em EXCEPT ![e] = StartCall(e, level)]
    /\ UNCHANGED <<heap, plugins, mu, debug, file, now, deliveries, handed,
                   handleCalls, failures, adm, closed, exited>>
    /\ UNCHANGED others

\* l.WithFields(fields).Info(...), Warn, Error or Fatal: WithFields returns l
EmitWithFields(e, level) ==
    /\ ~exited
    /\ em[e].pc = "idle"
    /\ Len(calls) < MaxCalls
    /\ calls' = Append(calls, [level |-> level, enabled |-> TRUE,
                               fields |-> Field("k", 1)])
    /\ em' = [em EXCEPT ![e] = StartCall(e, level)]
    /\ UNCHANGED <<heap, plugins, mu, debug, file, now, deliveries, handed,
                   handleCalls, failures, adm, closed, exited>>
    /\ UNCHANGED others

\* the caller's file and line, as runtime.Caller(2) resolves them
CallerFile == <<"m">>
CallerLine(call) == call

\* the line l.logger.Printf writes for an entry, after the time stamp the
\* log.Logger puts before it
LineOf(entry) ==
    [Level |-> entry.Level, Source |-> entry.Source,
     Line |-> entry.Line, Message |-> entry.Message]

\* an entry that carries the fields given to WithFields
EntryOfWithFields(e) ==
    LET capture == em[e].level = DEBUG /\ debug
        source == IF capture THEN CallerFile ELSE <<>>
        line == IF capture THEN CallerLine(em[e].call) ELSE 0
    IN  [LogEntry(now + 1, em[e].level, MessageOf(em[e].call), source, line)
            EXCEPT !.Fields = calls[em[e].call].fields]

\* the entry logWithSource builds: the call site is captured for a DEBUG
\* entry while l.debug is set
EntryOf(e) ==
    LET capture == em[e].level = DEBUG /\ debug
        source == IF capture THEN CallerFile ELSE <<>>
        line == IF capture THEN CallerLine(em[e].call) ELSE 0
    IN  LogEntry(now + 1, em[e].level, MessageOf(em[e].call), source, line)

\* a logWithSource that writes the line as soon as the entry is built
BuildEntryWriteFirst(e) ==
    /\ ~exited
    /\ em[e].pc = "log"
    /\ em' = [em EXCEPT ![e].pc = "rlock", ![e].entry = EntryOf(e)]
    /\ now' = now + 1
    /\ file' = Append(file, LineOf(EntryOf(e)))
    /\ UNCHANGED <<heap, plugins, mu, debug, calls, deliveries, handed,
                   handleCalls, failures, adm, closed, exited>>
    /\ UNCHANGED others

\* logWithSource, to the entry: the message, the call site and the entry
BuildEntry(e) ==
    /\ ~exited
    /\ em[e].pc = "log"
    /\ em' = [em EXCEPT ![e].pc = "rlock", ![e].entry = EntryOf(e)]
    /\ now' = now + 1
    /\ UNCHANGED <<heap, plugins, mu, debug, file, calls, deliveries, handed,
                   handleCalls, failures, adm, closed, exited>>
    /\ UNCHANGED others

\* l.mu.RLock()
RLock(e) ==
    /\ ~exited
    /\ em[e].pc = "rlock"
    /\ ~mu.w
    /\ mu' = [mu EXCEPT !.r = @ + 1]
    /\ em' = [em EXCEPT ![e].pc = "snap"]
    /\ UNCHANGED <<heap, plugins, debug, file, now, calls, deliveries, handed,
                   handleCalls, failures, adm, closed, exited>>
    /\ UNCHANGED others

\* plugins := l.plugins; l.mu.RUnlock(): the slice header is copied, the
\* backing array is shared
Snapshot(e) ==
    /\ ~exited
    /\ em[e].pc = "snap"
    /\ mu' = [mu EXCEPT !.r = @ - 1]
    /\ em' = [em EXCEPT ![e].pc = "loop", ![e].snap = plugins, ![e].idx = 0,
                        ![e].snapReg = Registry]
    /\ UNCHANGED <<heap, plugins, debug, file, now, calls, deliveries, handed,
                   handleCalls, failures, adm, closed, exited>>
    /\ UNCHANGED others

Delivery(p, entry) == [p |-> p, entry |-> entry]

\* what one iteration of the loop over the plugins starts: a goroutine for
\* the plugin when it should handle the entry
Started(p, entry) ==
    IF ShouldHandle(p, entry) THEN SetToBag({Delivery(p, entry)})
    ELSE EmptyBag

\* one iteration of  for _, plugin := range plugins: the element is read
\* from the backing array when the iteration runs
Iterate(e) ==
    /\ ~exited
    /\ em[e].pc = "loop"
    /\ em[e].idx < em[e].snap.len
    /\ LET p == heap[em[e].snap.arr][em[e].idx + 1]
           started == Started(p, em[e].entry)
       IN  /\ deliveries' = deliveries (+) started
           /\ handed' = handed (+) started
    /\ em' = [em EXCEPT ![e].idx = @ + 1,
                        ![e].read = Append(@, heap[em[e].snap.arr][em[e].idx + 1])]
    /\ UNCHANGED <<heap, plugins, mu, debug, file, now, calls, handleCalls,
                   failures, adm, closed, exited>>
    /\ UNCHANGED others

\* a loop that calls p.Handle(e) itself: the next iteration runs when the
\* deliveries started so far have returned
DispatchAwaiting(e) ==
    /\ deliveries = EmptyBag
    /\ Iterate(e)

\* the loop of logWithSource over the plugins
Dispatch(e) == Iterate(e)

\* a Fatal that exits without the line
WriteLineUnlessFatal(e) ==
    /\ ~exited
    /\ em[e].pc = "loop"
    /\ em[e].idx = em[e].snap.len
    /\ file' = IF em[e].level = FATAL THEN file ELSE Append(file, LineOf(em[e].entry))
    /\ em' = [em EXCEPT ![e] = IF em[e].level = FATAL
                                THEN [IdleEmitter EXCEPT !.pc = "exit"]
                                ELSE IdleEmitter]
    /\ UNCHANGED <<heap, plugins, mu, debug, now, calls, deliveries, handed,
                   handleCalls, failures, adm, closed, exited>>
    /\ UNCHANGED others

\* the end of the loop, and l.logger.Printf of the entry's line
WriteLine(e) ==
    /\ ~exited
    /\ em[e].pc = "loop"
    /\ em[e].idx = em[e].snap.len
    /\ file' = Append(file, LineOf(em[e].entry))
    /\ em' = [em EXCEPT ![e] = IF em[e].level = FATAL
                                THEN [IdleEmitter EXCEPT !.pc = "exit"]
                                ELSE IdleEmitter]
    /\ UNCHANGED <<heap, plugins, mu, debug, now, calls, deliveries, handed,
                   handleCalls, failures, adm, closed, exited>>
    /\ UNCHANGED others

\* Logger.Fatal: os.Exit(1)
Exit(e) ==
    /\ ~exited
    /\ em[e].pc = "exit"
    /\ exited' = TRUE
    /\ UNCHANGED <<heap, plugins, mu, debug, file, now, calls, em, deliveries,
                   handed, handleCalls, failures, adm, closed>>
    /\ UNCHANGED others

\* Logger.SetDebug
SetDebug(enabled) ==
    /\ ~exited
    /\ debug' = enabled
    /\ UNCHANGED <<heap, plugins, mu, file, now, calls, em, deliveries, handed,
                   handleCalls, failures, adm, closed, exited>>
    /\ UNCHANGED others

(***************************************************************************)
(* The delivery goroutines:  go func(p, e) { ... }(plugin, entry).         *)
(***************************************************************************)
PluginErrorMessage == <<"P">>

\* the line of  l.logger.Printf("[ERROR] Plugin error: %v", err)
PluginErrorLine ==
    [Level |-> ERROR, Source |-> <<>>, Line |-> 0,
     Message |-> PluginErrorMessage]

\* what the goroutine writes after p.Handle(e) returned
PluginErrorLines(ok) == IF ok THEN <<>> ELSE <<PluginErrorLine>>

\* a delivery that calls p.Handle(e) again after an error
HandleRetrying(d, ok) ==
    /\ ~exited
    /\ BagIn(d, deliveries)
    /\ deliveries' = IF ok THEN deliveries (-) SetToBag({d}) ELSE deliveries
    /\ handleCalls' = handleCalls (+) SetToBag({d})
    /\ failures' = IF ok THEN failures ELSE failures + 1
    /\ file' = file \o PluginErrorLines(ok)
    /\ UNCHANGED <<heap, plugins, mu, debug, now, calls, em, handed, adm,
                   closed, exited>>
    /\ UNCHANGED others

\* a delivery whose error is logged as an entry, which is dispatched in turn
HandleAmplifying(d, ok) ==
    LET again == IF ok THEN EmptyBag
                 ELSE SetToBag({Delivery(d.p, LogEntry(now, ERROR, PluginErrorMessage, <<>>, 0))})
    IN  /\ ~exited
        /\ BagIn(d, deliveries)
        /\ deliveries' = (deliveries (-) SetToBag({d})) (+) again
        /\ handed' = handed (+) again
        /\ handleCalls' = handleCalls (+) SetToBag({d})
        /\ failures' = IF ok THEN failures ELSE failures + 1
        /\ file' = file \o PluginErrorLines(ok)
        /\ UNCHANGED <<heap, plugins, mu, debug, now, calls, em, adm, closed, exited>>
        /\ UNCHANGED others

\* the goroutine of one delivery: p.Handle(e) runs and returns, with or
\* without an error, and an error is written with l.logger.Printf
Handle(d, ok) ==
    /\ ~exited
    /\ BagIn(d, deliveries)
    /\ deliveries' = deliveries (-) SetToBag({d})
    /\ handleCalls' = handleCalls (+) SetToBag({d})
    /\ failures' = IF ok THEN failures ELSE failures + 1
    /\ file' = file \o PluginErrorLines(ok)
    /\ UNCHANGED <<heap, plugins, mu, debug, now, calls, em, handed, adm,
                   closed, exited>>
    /\ UNCHANGED others

(***************************************************************************)
(* AddPlugin and RemovePlugin.                                             *)
(***************************************************************************)
IdleAdmin(ops) ==
    [pc |-> "idle", op |-> "", p |-> "", i |-> 0, j |-> 0, ret |-> "",
     before |-> <<>>, closes |-> <<>>, ops |-> ops]

\* l.mu.Lock() of AddPlugin and RemovePlugin
Lock(op, p) ==
    /\ ~exited
    /\ adm.pc = "idle"
    /\ adm.ops < MaxOps
    /\ ~mu.w /\ mu.r = 0
    /\ mu' = [mu EXCEPT !.w = TRUE]
    /\ adm' = [IdleAdmin(adm.ops + 1) EXCEPT !.pc = op, !.op = op, !.p = p,
                                             !.before = Registry]
    /\ UNCHANGED <<heap, plugins, debug, file, now, calls, deliveries, handed,
                   handleCalls, failures, closed, exited>>
    /\ UNCHANGED others

\* an added plugin has been registered since, for the calls in flight
NoLongerAbsent(p) ==
    [e \in Emitters |-> [em[e] EXCEPT !.absent = @ \ {p}]]

\* a plugin whose removal starts is no longer registered throughout
NoLongerPresent(p) ==
    [e \in Emitters |-> [em[e] EXCEPT !.present = @ \ {p}]]

AddLock(p) ==
    /\ Lock("add", p)
    /\ UNCHANGED em

\* AddPlugin under the lock: plugin.Initialize() and the append
AddBody ==
    /\ ~exited
    /\ adm.pc = "add"
    /\ IF InitializeFails(adm.p)
       THEN /\ adm' = [adm EXCEPT !.pc = "ret", !.ret = "err"]
            /\ UNCHANGED <<heap, plugins, em>>
       ELSE /\ heap' = GoAppend(heap, plugins, adm.p)[1]
            /\ plugins' = GoAppend(heap, plugins, adm.p)[2]
            /\ adm' = [adm EXCEPT !.pc = "ret", !.ret = "nil"]
            /\ em' = NoLongerAbsent(adm.p)
    /\ UNCHANGED <<mu, debug, file, now, calls, deliveries, handed,
                   handleCalls, failures, closed, exited>>
    /\ UNCHANGED others

RemoveLock(p) ==
    /\ Lock("remove", p)
    /\ em' = NoLongerPresent(p)

\* a search that ends on the last element when none is equal to p
IndexOfOrLast(p, q) ==
    IF \E i \in 1..Len(q) : q[i] = p
    THEN CHOOSE i \in 1..Len(q) : q[i] = p /\ \A k \in 1..(i - 1) : q[k] # p
    ELSE Len(q)

\* the index (from 1) of the first element of q equal to p, 0 when none is
IndexOf(p, q) ==
    IF \E i \in 1..Len(q) : q[i] = p
    THEN CHOOSE i \in 1..Len(q) : q[i] = p /\ \A k \in 1..(i - 1) : q[k] # p
    ELSE 0

\* RemovePlugin's loop to the first match, and p.Close() on it
RemoveScan ==
    /\ ~exited
    /\ adm.pc = "remove"
    /\ LET i == IndexOf(adm.p, Registry)
       IN  IF i = 0
           THEN /\ adm' = [adm EXCEPT !.pc = "ret", !.ret = "err"]
                /\ UNCHANGED closed
           ELSE /\ closed' = closed (+) SetToBag({adm.p})
                /\ adm' = IF CloseFails(adm.p)
                          THEN [adm EXCEPT !.pc = "ret", !.ret = "err",
                                           !.closes = Append(@, adm.p)]
                          ELSE [adm EXCEPT !.pc = "shift", !.i = i, !.j = i,
                                           !.closes = Append(@, adm.p)]
    /\ UNCHANGED <<heap, plugins, mu, debug, file, now, calls, em, deliveries,
                   handed, handleCalls, failures, exited>>
    /\ UNCHANGED others

\* append(l.plugins[:i], l.plugins[i+1:]...): the elements after i move down
\* by one in the backing array, one at a time
RemoveShift ==
    /\ ~exited
    /\ adm.pc = "shift"
    /\ adm.j < plugins.len
    /\ heap' = [heap EXCEPT ![plugins.arr][adm.j] = heap[plugins.arr][adm.j + 1]]
    /\ adm' = [adm EXCEPT !.j = @ + 1]
    /\ UNCHANGED <<plugins, mu, debug, file, now, calls, em, deliveries, handed,
                   handleCalls, failures, closed, exited>>
    /\ UNCHANGED others

\* a removal that leaves the length of l.plugins as it was
RemoveStoreSameLen ==
    /\ ~exited
    /\ adm.pc = "shift"
    /\ adm.j = plugins.len
    /\ adm' = [adm EXCEPT !.pc = "ret", !.ret = "nil"]
    /\ UNCHANGED <<heap, plugins, mu, debug, file, now, calls, em, deliveries,
                   handed, handleCalls, failures, closed, exited>>
    /\ UNCHANGED others

\* l.plugins = the shortened slice
RemoveStore ==
    /\ ~exited
    /\ adm.pc = "shift"
    /\ adm.j = plugins.len
    /\ plugins' = [plugins EXCEPT !.len = @ - 1]
    /\ adm' = [adm EXCEPT !.pc = "ret", !.ret = "nil"]
    /\ UNCHANGED <<heap, mu, debug, file, now, calls, em, deliveries, handed,
                   handleCalls, failures, closed, exited>>
    /\ UNCHANGED others

\* a return that leaves l.mu locked
ReturnLocked ==
    /\ ~exited
    /\ adm.pc = "ret"
    /\ adm' = IdleAdmin(adm.ops)
    /\ UNCHANGED <<heap, plugins, mu, debug, file, now, calls, em, deliveries,
                   handed, handleCalls, failures, closed, exited>>
    /\ UNCHANGED others

\* the deferred l.mu.Unlock(), and the return
Return ==
    /\ ~exited
    /\ adm.pc = "ret"
    /\ mu' = [mu EXCEPT !.w = FALSE]
    /\ adm' = IdleAdmin(adm.ops)
    /\ UNCHANGED <<heap, plugins, debug, file, now, calls, em, deliveries,
                   handed, handleCalls, failures, closed, exited>>
    /\ UNCHANGED others

(***************************************************************************)
(* The default logger: Initialize, sync.Once and Default.                  *)
(***************************************************************************)
\* the calls of Initialize a goroutine makes
MaxInit == 2

\* the goroutines that call Initialize
Callers == {"i1", "i2"}

\* DefaultConfig(), which LoadConfig returns when there is no file
DefaultConfig == [err |-> FALSE, Debug |-> FALSE, Webhooks |-> <<>>]

\* what LoadConfig(configPath) returns: an error (the file does not read or
\* parse, or the log directory cannot be made), DefaultConfig() or the
\* configuration of the file
LoadConfig ==
    {[err |-> TRUE, Debug |-> FALSE, Webhooks |-> <<>>], DefaultConfig} \cup
    {[err |-> FALSE, Debug |-> d, Webhooks |-> <<"A", "U", "B">>] : d \in BOOLEAN}

IdleInit ==
    [pc |-> "idle", late |-> FALSE, err |-> FALSE, config |-> DefaultConfig,
     idx |-> 0, n |-> 0, ret |-> ""]

\* a call of Initialize starts: var err error
InitializeCall(c) ==
    /\ ini[c].pc = "idle"
    /\ ini[c].n < MaxInit
    /\ ini' = [ini EXCEPT ![c] = [IdleInit EXCEPT !.pc = "once",
                                                  !.late = once.done,
                                                  !.n = ini[c].n + 1,
                                                  !.ret = ini[c].ret]]
    /\ UNCHANGED <<heap, plugins, mu, debug, file, now, calls, em, deliveries,
                   handed, handleCalls, failures, adm, closed, exited>>
    /\ UNCHANGED <<defaultLogger, once, runs, defaults, httpVars, fnVars>>

\* the body of once.Do runs whatever o.done is
DoneIsZeroAlways(o) == TRUE

\* o.done.Load() == 0
DoneIsZero(o) == ~o.done

\* sync.Once.Do: the fast path
OnceDo(c) ==
    /\ ini[c].pc = "once"
    /\ ini' = [ini EXCEPT ![c].pc = IF DoneIsZero(once) THEN "lock" ELSE "ret"]
    /\ UNCHANGED <<heap, plugins, mu, debug, file, now, calls, em, deliveries,
                   handed, handleCalls, failures, adm, closed, exited>>
    /\ UNCHANGED <<defaultLogger, once, runs, defaults, httpVars, fnVars>>

\* sync.Once.doSlow: o.m.Lock() and the second test of o.done
DoSlow(c) ==
    /\ ini[c].pc = "lock"
    /\ once.m = ""
    /\ IF DoneIsZero(once)
       THEN /\ once' = [once EXCEPT !.m = c]
            /\ runs' = [runs EXCEPT !.body = @ + 1]
            /\ ini' = [ini EXCEPT ![c].pc = "load"]
       ELSE /\ ini' = [ini EXCEPT ![c].pc = "ret"]
            /\ UNCHANGED <<once, runs>>
    /\ UNCHANGED <<heap, plugins, mu, debug, file, now, calls, em, deliveries,
                   handed, handleCalls, failures, adm, closed, exited>>
    /\ UNCHANGED <<defaultLogger, defaults, httpVars, fnVars>>

\* config, err = LoadConfig(configPath); if err != nil { return }
InitializeLoad(c) ==
    /\ ini[c].pc = "load"
    /\ \E config \in LoadConfig :
          ini' = [ini EXCEPT ![c] = [@ EXCEPT !.err = config.err,
                                              !.config = config,
                                              !.pc = IF config.err THEN "done"
                                                                   ELSE "new"]]
    /\ UNCHANGED <<heap, plugins, mu, debug, file, now, calls, em, deliveries,
                   handed, handleCalls, failures, adm, closed, exited>>
    /\ UNCHANGED <<defaultLogger, once, runs, defaults, httpVars, fnVars>>

\* defaultLogger, err = New(config): a logger with config.Debug and no
\* plugin; New returns no error
New(c) ==
    /\ ini[c].pc = "new"
    /\ defaultLogger' = TRUE
    /\ heap' = <<>>
    /\ plugins' = NilSlice
    /\ mu' = [w |-> FALSE, r |-> 0]
    /\ debug' = ini[c].config.Debug
    /\ runs' = [runs EXCEPT !.new = @ + 1]
    /\ ini' = [ini EXCEPT ![c] = [@ EXCEPT !.pc = "hooks", !.idx = 0, !.err = FALSE]]
    /\ UNCHANGED <<file, now, calls, em, deliveries, handed, handleCalls,
                   failures, adm, closed, exited>>
    /\ UNCHANGED <<once, defaults, httpVars, fnVars>>

\* one iteration of the loop over config.Webhooks: a webhook without URL is
\* skipped, the others are added; err is that of the last AddPlugin
InitializeWebhook(c) ==
    /\ ini[c].pc = "hooks"
    /\ ini[c].idx < Len(ini[c].config.Webhooks)
    /\ LET webhook == ini[c].config.Webhooks[ini[c].idx + 1]
       IN  IF URL(webhook) = <<>>
           THEN /\ ini' = [ini EXCEPT ![c].idx = @ + 1]
                /\ UNCHANGED <<heap, plugins>>
           ELSE /\ ~mu.w /\ mu.r = 0
                /\ IF InitializeFails(webhook)
                   THEN /\ ini' = [ini EXCEPT ![c] = [@ EXCEPT !.idx = @ + 1,
                                                               !.err = TRUE]]
                        /\ UNCHANGED <<heap, plugins>>
                   ELSE /\ heap' = GoAppend(heap, plugins, webhook)[1]
                        /\ plugins' = GoAppend(heap, plugins, webhook)[2]
                        /\ ini' = [ini EXCEPT ![c] = [@ EXCEPT !.idx = @ + 1,
                                                               !.err = FALSE]]
    /\ UNCHANGED <<mu, debug, file, now, calls, em, deliveries, handed,
                   handleCalls, failures, adm, closed, exited>>
    /\ UNCHANGED <<defaultLogger, once, runs, defaults, httpVars, fnVars>>

\* the body of once.Do returns: defer o.done.Store(1), defer o.m.Unlock()
OnceDone(c) ==
    /\ \/ ini[c].pc = "done"
       \/ ini[c].pc = "hooks" /\ ini[c].idx = Len(ini[c].config.Webhooks)
    /\ once' = [done |-> TRUE, m |-> ""]
    /\ ini' = [ini EXCEPT ![c].pc = "ret"]
    /\ UNCHANGED <<heap, plugins, mu, debug, file, now, calls, em, deliveries,
                   handed, handleCalls, failures, adm, closed, exited>>
    /\ UNCHANGED <<defaultLogger, runs, defaults, httpVars, fnVars>>

\* return err
InitializeReturn(c) ==
    /\ ini[c].pc = "ret"
    /\ ini' = [ini EXCEPT ![c] = [IdleInit EXCEPT !.n = ini[c].n,
                                                  !.ret = IF ini[c].err THEN "err"
                                                                        ELSE "nil"]]
    /\ UNCHANGED <<heap, plugins, mu, debug, file, now, calls, em, deliveries,
                   handed, handleCalls, failures, adm, closed, exited>>
    /\ UNCHANGED <<defaultLogger, once, runs, defaults, httpVars, fnVars>>

\* Default(): panics when defaultLogger is nil, else returns it; the outcome
\* is recorded with whether New had made a logger by then
Default ==
    /\ defaults' = defaults \cup {[constructed |-> runs.new > 0,
                                   panics |-> ~defaultLogger]}
    /\ defaults' # defaults
    /\ UNCHANGED <<heap, plugins, mu, debug, file, now, calls, em, deliveries,
                   handed, handleCalls, failures, adm, closed, exited>>
    /\ UNCHANGED <<defaultLogger, once, ini, runs, httpVars, fnVars>>

(***************************************************************************)
(* GetLogs: the HTTP handler that reads the log file back.                 *)
(***************************************************************************)
\* the lines of the log file
MaxLines == 3

\* time.Minute, time.Hour and a day, in seconds
Minute == 60
Hour == 60 * Minute
Day == 24 * Hour

\* defaultLines
DefaultLines == 100

\* a line is the sequence of its parts between single spaces
Token(k, v, br) == [k |-> k, v |-> v, br |-> br]

\* "2024/03/09 10:32:30 [INFO] ..." as log.LstdFlags writes it, on day d at
\* t seconds
FullLine(d, t, m) ==
    <<Token("date", d, FALSE), Token("time", t, FALSE), Token("word", 0, TRUE),
      Token("word", m, FALSE)>>

\* "10:32:30 [INFO] ..."
TimeLine(t, m) ==
    <<Token("time", t, FALSE), Token("word", 0, TRUE), Token("word", m, FALSE)>>

\* a line that does not start with a time, such as the second line of a
\* message with a line break
PlainLine(m) == <<Token("word", m, FALSE)>>

\* "2024/03/09 10:32:30 [INFO] ..." with a message of two words
WordyLine(d, t, m) == Append(FullLine(d, t, m), Token("word", m, FALSE))

LineSet ==
    {FullLine(1, Hour, 1), FullLine(1, 2 * Hour, 2), TimeLine(Hour, 3), PlainLine(4),
     WordyLine(1, 3 * Hour, 5)}


RECURSIVE SeqsUpTo(_, _)
\* the sequences over S of length at most n
SeqsUpTo(S, n) ==
    IF n = 0 THEN {<<>>}
    ELSE LET shorter == SeqsUpTo(S, n - 1)
         IN  shorter \cup {Append(q, x) : q \in {r \in shorter : Len(r) = n - 1}, x \in S}

\* a file of more lines than defaultLines
LongFile == [i \in 1..(DefaultLines + 1) |-> FullLine(1, Hour, i)]

\* the files
Files == SeqsUpTo(LineSet, MaxLines) \cup {LongFile}

\* a pointer field of LogRequest
Nil == [nil |-> TRUE, v |-> 0]
Ptr(v) == [nil |-> FALSE, v |-> v]

\* a query parameter, or a field of the JSON body: absent, one that parses to
\* v, or one that does not parse
Absent == [set |-> FALSE, ok |-> TRUE, v |-> 0]
Given(v) == [set |-> TRUE, ok |-> TRUE, v |-> v]
Malformed == [set |-> TRUE, ok |-> FALSE, v |-> 0]

Formats == {"", "json", "jsonpretty", "csv", "text", "xml"}

HTTPRequest(method, from, to, lines, minutes, format) ==
    [method |-> method, from_time |-> from, to_time |-> to, last_lines |-> lines,
     last_minutes |-> minutes, format |-> format]

NoRequest == HTTPRequest("", Absent, Absent, Absent, Absent, "")

\* the requests: those whose parameters parse, those with one parameter that
\* does not, and one of another method
Requests ==
    {HTTPRequest(m, f, t, l, lm, fmt) :
        m \in {"GET", "POST"},
        f \in {Absent, Given(Day + Hour)},
        t \in {Absent, Given(Day + 3 * Hour)},
        l \in {Absent} \cup {Given(n) : n \in (-1)..(MaxLines + 1)},
        lm \in {Absent, Given(30)},
        fmt \in Formats}
    \cup {HTTPRequest(m, Malformed, Absent, Given(1), Absent, "") : m \in {"GET", "POST"}}
    \cup {HTTPRequest(m, Absent, Malformed, Given(1), Absent, "") : m \in {"GET", "POST"}}
    \cup {HTTPRequest(m, Absent, Absent, Malformed, Absent, "") : m \in {"GET", "POST"}}
    \cup {HTTPRequest(m, Absent, Absent, Given(1), Malformed, "") : m \in {"GET", "POST"}}
    \cup {HTTPRequest("PUT", Absent, Absent, Given(1), Absent, "")}

\* the log file: "ok", GetLogFile() returns "" ("nopath"), os.Open fails
\* ("noopen"), or the scanner ends with an error ("readerr": the read fails or
\* a line is longer than the scanner's buffer)
FileStates == {"ok", "nopath", "noopen", "readerr"}

NoFile == [state |-> "ok", lines |-> <<>>]

\* the offsets of the local time zone
Zones == {0, -3 * Hour}

NoResponse ==
    [status |-> 0, panic |-> FALSE, lines |-> <<>>, null |-> FALSE, body |-> <<>>,
     contentType |-> ""]

\* http.Error(w, ..., code)
HTTPError(code) == [NoResponse EXCEPT !.status = code, !.contentType = "text/plain"]

\* a panic of the handler, which net/http recovers: no response is written
Panic == [NoResponse EXCEPT !.panic = TRUE]

\* the request as the method's branch parses it: the status of the first
\* parameter that does not parse, else the LogRequest
ParseRequest(r) ==
    LET field(x) == IF x.set THEN Ptr(x.v) ELSE Nil
        req == [FromTime |-> field(r.from_time), ToTime |-> field(r.to_time),
                LastLines |-> field(r.last_lines),
                LastMinutes |-> field(r.last_minutes), Format |-> r.format]
        parses == r.from_time.ok /\ r.to_time.ok /\ r.last_lines.ok /\ r.last_minutes.ok
    IN  IF r.method \in {"GET", "POST"}
        THEN [status |-> IF parses THEN 200 ELSE 400, req |-> req]
        ELSE [status |-> 405, req |-> req]

\* the format is one of the four, "" standing for json
ValidFormat(format) == format \in {"", "json", "jsonpretty", "csv", "text"}

\* last_minutes fills the bounds that were not supplied
LastMinutesUnlessGiven(req, t) ==
    IF ~req.LastMinutes.nil
    THEN [req EXCEPT !.FromTime = IF @.nil THEN Ptr(t - req.LastMinutes.v * Minute) ELSE @,
                     !.ToTime = IF @.nil THEN Ptr(t) ELSE @]
    ELSE req

\* if req.LastMinutes != nil: FromTime and ToTime are set from now
LastMinutes(req, t) ==
    IF ~req.LastMinutes.nil
    THEN [req EXCEPT !.FromTime = Ptr(t - req.LastMinutes.v * Minute),
                     !.ToTime = Ptr(t)]
    ELSE req

\* the default applies whenever last_lines is absent, and FromTime is put a
\* minute before ToTime
DefaultsOff(req) ==
    LET r == IF req.LastLines.nil
             THEN [req EXCEPT !.LastLines = Ptr(DefaultLines - 1)]
             ELSE req
    IN  IF r.FromTime.nil /\ ~r.ToTime.nil
        THEN [r EXCEPT !.FromTime = Ptr(r.ToTime.v - 1 * Minute)]
        ELSE r

\* the default of LastLines, then the default of FromTime
Defaults(req) ==
    LET r == IF req.LastLines.nil /\ req.FromTime.nil /\ req.ToTime.nil
             THEN [req EXCEPT !.LastLines = Ptr(DefaultLines)]
             ELSE req
    IN  IF r.FromTime.nil /\ ~r.ToTime.nil
        THEN [r EXCEPT !.FromTime = Ptr(r.ToTime.v - 1 * Hour)]
        ELSE r

\* the format, last_minutes and the defaults, in the order of the handler
Normalize(req, t) ==
    Defaults(LastMinutes(IF req.Format = "" THEN [req EXCEPT !.Format = "json"]
                                            ELSE req, t))

\* a window that is full drops its oldest line when it already holds n lines
RingAppendFull(buffer, line, n) ==
    LET appended == Append(buffer, line)
    IN  IF Len(appended) >= n THEN SubSeq(appended, 2, Len(appended)) ELSE appended

\* buffer = append(buffer, line); if len(buffer) > n { buffer = buffer[1:] }
RingAppend(buffer, line, n) ==
    LET appended == Append(buffer, line)
    IN  IF Len(appended) > n THEN SubSeq(appended, 2, Len(appended)) ELSE appended

RECURSIVE LastLinesOf(_, _, _)
\* the loop over scanner.Scan() that keeps the last n lines, from buffer on:
\* the iterations over the first half of the lines, then those over the rest
\* (Len(first) >= 0 holds of every buffer: the test has TLC evaluate the
\* buffer of the first half before it goes through the second)
LastLinesOf(buffer, lines, n) ==
    IF lines = <<>> THEN buffer
    ELSE IF Len(lines) = 1 THEN RingAppend(buffer, lines[1], n)
    ELSE LET half == Len(lines) \div 2
             first == LastLinesOf(buffer, SubSeq(lines, 1, half), n)
         IN  IF Len(first) >= 0
             THEN LastLinesOf(first, SubSeq(lines, half + 1, Len(lines)), n)
             ELSE first

\* extractTimestamp: [ok, t]; "2006/01/02 15:04:05" is read as UTC, "15:04:05"
\* as that time of today in the local zone
extractTimestamp(line, clk) ==
    IF Len(line) < 2 THEN [ok |-> FALSE, t |-> 0]
    ELSE IF line[1].k = "date" /\ line[2].k = "time"
    THEN [ok |-> TRUE, t |-> line[1].v * Day + line[2].v]
    ELSE IF line[1].k = "time"
    THEN LET today == (clk.now + clk.zone) \div Day
         IN  [ok |-> TRUE, t |-> today * Day + line[1].v - clk.zone]
    ELSE [ok |-> FALSE, t |-> 0]

\* a line at a bound is left out
InRangeExclusive(line, req, clk) ==
    LET ts == extractTimestamp(line, clk)
    IN  /\ ts.ok
        /\ ~(~req.FromTime.nil /\ ts.t <= req.FromTime.v)
        /\ ~(~req.ToTime.nil /\ ts.t >= req.ToTime.v)

\* the line passes the time filter
InRange(line, req, clk) ==
    LET ts == extractTimestamp(line, clk)
    IN  /\ ts.ok
        /\ ~(~req.FromTime.nil /\ ts.t < req.FromTime.v)
        /\ ~(~req.ToTime.nil /\ ts.t > req.ToTime.v)

\* a line of three parts makes a row too
CSVRowsOfThree(lines) ==
    LET rows == SelectSeq(lines, LAMBDA line : Len(line) >= 3)
    IN  <<<<"Timestamp", "Level", "Message">>>> \o
        [i \in 1..Len(rows) |->
            <<<<rows[i][1], rows[i][2]>>, [rows[i][3] EXCEPT !.br = FALSE],
              SubSeq(rows[i], 4, Len(rows[i]))>>]

\* the rows of the csv format: the header, and one row per line of four parts
CSVRows(lines) ==
    LET rows == SelectSeq(lines, LAMBDA line : Len(line) >= 4)
    IN  <<<<"Timestamp", "Level", "Message">>>> \o
        [i \in 1..Len(rows) |->
            <<<<rows[i][1], rows[i][2]>>, [rows[i][3] EXCEPT !.br = FALSE],
              SubSeq(rows[i], 4, Len(rows[i]))>>]

\* the response in the format of the request
Encode(format, lines, null) ==
    [status |-> 200, panic |-> FALSE, lines |-> lines, null |-> null,
     body |-> IF format = "csv" THEN CSVRows(lines) ELSE lines,
     contentType |-> IF format \in {"json", "jsonpretty"} THEN "application/json"
                     ELSE IF format = "csv" THEN "text/csv" ELSE "text/plain"]

\* the response of GetLogs to request r over the log file f at clock clk
Respond(r, f, clk) ==
    LET parsed == ParseRequest(r)
        req == Normalize(parsed.req, clk.now)
    IN  IF parsed.status # 200 THEN HTTPError(parsed.status)
        ELSE IF ~ValidFormat(parsed.req.Format) THEN HTTPError(400)
        ELSE IF f.state \in {"nopath", "noopen"} THEN HTTPError(500)
        ELSE IF ~req.LastLines.nil /\ req.FromTime.nil
        THEN IF req.LastLines.v < 0 THEN Panic
             ELSE IF f.state = "readerr" THEN HTTPError(500)
             ELSE Encode(req.Format, LastLinesOf(<<>>, f.lines, req.LastLines.v), FALSE)
        ELSE IF f.state = "readerr" THEN HTTPError(500)
        ELSE LET kept == SelectSeq(f.lines, LAMBDA line : InRange(line, req, clk))
             IN  Encode(req.Format, kept, kept = <<>>)

\* HTTPHandler.GetLogs
GetLogs ==
    /\ request # NoRequest
    /\ response = NoResponse
    /\ response' = Respond(request, logFile, clock)
    /\ UNCHANGED <<heap, plugins, mu, debug, file, now, calls, em, deliveries,
                   handed, handleCalls, failures, adm, closed, exited>>
    /\ UNCHANGED <<initVars, request, logFile, clock, srv, fnVars>>

(***************************************************************************)
(* A request to the server: the router of setupRoutes, the middleware      *)
(* RequireAuth and the handlers.  The goroutine that serves the request    *)
(* makes the calls of the logger's emission API as emitter e.              *)
(***************************************************************************)
DebugPath == "/api/loggersettings/debug"
LogPath == "/api/logging/log"
CustomersPath == "/api/customers"

\* the methods of a route: .Methods(...)
RouteMethods(path) ==
    CASE path = DebugPath -> {"POST"}
      [] path = LogPath -> {"GET", "POST"}
      [] path = CustomersPath -> {"GET"}

\* the route's handler is wrapped in authMiddleware.RequireAuth
RequiresAuth(path) == path = CustomersPath

\* json.NewDecoder(r.Body).Decode(&settings) of the body {"enabled": true}
\* ("true"), {"enabled": false} ("false") or one that does not decode ("bad")
Decode(body) == [err |-> body = "bad", Enabled |-> body = "true"]

\* a request: it arrives at the router ("router") or a caller invokes the
\* handler itself ("handler"); cred: it carries a valid JWT or API key;
\* before: l.debug when it arrived
NoServe ==
    [pc |-> "idle", via |-> "", path |-> "", method |-> "", cred |-> FALSE,
     body |-> "", status |-> 0, echo |-> "", before |-> FALSE]

\* http.Error(w, ..., code), or the response written at the handler's end
Answer(code, echo) == [srv EXCEPT !.pc = "done", !.status = code, !.echo = echo]

\* an emitting call of the serving goroutine; the response follows it
Logging(e, level, code, echo) ==
    /\ Len(calls) < MaxCalls
    /\ em[e].pc = "idle"
    /\ calls' = Append(calls, [level |-> level, enabled |-> TRUE, fields |-> NoFields])
    /\ em' = [em EXCEPT ![e] = StartCall(e, level)]
    /\ srv' = [srv EXCEPT !.pc = "reply", !.status = code, !.echo = echo]

\* mux.Router.ServeHTTP: the route of the path, its methods, its handler
ServeHTTP ==
    /\ srv.pc = "router"
    /\ srv' = IF srv.method \notin RouteMethods(srv.path) THEN Answer(405, "")
              ELSE IF RequiresAuth(srv.path) THEN [srv EXCEPT !.pc = "auth"]
              ELSE [srv EXCEPT !.pc = "handler"]
    /\ UNCHANGED <<heap, plugins, mu, debug, file, now, calls, em, deliveries,
                   handed, handleCalls, failures, adm, closed, exited>>
    /\ UNCHANGED <<initVars, request, logFile, clock, response, fnVars>>

\* Middleware.RequireAuth
RequireAuth(e) ==
    /\ srv.pc = "auth"
    /\ IF srv.cred
       THEN /\ srv' = [srv EXCEPT !.pc = "handler"]
            /\ UNCHANGED <<calls, em>>
       ELSE Logging(e, ERROR, 401, "")
    /\ UNCHANGED <<heap, plugins, mu, debug, file, now, deliveries,
                   handed, handleCalls, failures, adm, closed, exited>>
    /\ UNCHANGED <<initVars, request, logFile, clock, response, fnVars>>

\* a handler that stores the zero value of settings.Enabled when the body
\* does not decode
SetDebugHandlerUnchecked(e) ==
    /\ srv.pc = "handler" /\ srv.path = DebugPath
    /\ IF srv.method # "POST"
       THEN srv' = Answer(405, "") /\ UNCHANGED <<debug, calls, em>>
       ELSE IF Decode(srv.body).err
       THEN srv' = Answer(400, "") /\ debug' = FALSE /\ UNCHANGED <<calls, em>>
       ELSE /\ debug' = Decode(srv.body).Enabled
            /\ Logging(e, INFO, 200, srv.body)
    /\ UNCHANGED <<heap, plugins, mu, file, now, deliveries,
                   handed, handleCalls, failures, adm, closed, exited>>
    /\ UNCHANGED <<initVars, request, logFile, clock, response, fnVars>>

\* HTTPHandler.SetDebug, to the call of h.logger.Info
SetDebugHandler(e) ==
    /\ srv.pc = "handler" /\ srv.path = DebugPath
    /\ IF srv.method # "POST"
       THEN srv' = Answer(405, "") /\ UNCHANGED <<debug, calls, em>>
       ELSE IF Decode(srv.body).err
       THEN srv' = Answer(400, "") /\ UNCHANGED <<debug, calls, em>>
       ELSE /\ debug' = Decode(srv.body).Enabled
            /\ Logging(e, INFO, 200, srv.body)
    /\ UNCHANGED <<heap, plugins, mu, file, now, deliveries,
                   handed, handleCalls, failures, adm, closed, exited>>
    /\ UNCHANGED <<initVars, request, logFile, clock, response, fnVars>>

\* the router hands the request to HTTPHandler.GetLogs
GetLogsHandler ==
    /\ srv.pc = "handler" /\ srv.path = LogPath
    /\ request' = HTTPRequest(srv.method, Absent, Absent, Given(1), Absent, "")
    /\ srv' = [srv EXCEPT !.pc = "getlogs"]
    /\ UNCHANGED <<heap, plugins, mu, debug, file, now, calls, em, deliveries,
                   handed, handleCalls, failures, adm, closed, exited>>
    /\ UNCHANGED <<initVars, logFile, clock, response, fnVars>>

\* Customers.List: a Debug call, then the list
List(e) ==
    /\ srv.pc = "handler" /\ srv.path = CustomersPath
    /\ IF DebugDropped(debug)
       THEN srv' = Answer(200, "") /\ UNCHANGED <<calls, em>>
       ELSE Logging(e, DEBUG, 200, "")
    /\ UNCHANGED <<heap, plugins, mu, debug, file, now, deliveries,
                   handed, handleCalls, failures, adm, closed, exited>>
    /\ UNCHANGED <<initVars, request, logFile, clock, response, fnVars>>

\* the emitting call has returned: the response is written
Reply(e) ==
    /\ srv.pc = "reply"
    /\ em[e].pc = "idle"
    /\ srv' = [srv EXCEPT !.pc = "done"]
    /\ UNCHANGED <<heap, plugins, mu, debug, file, now, calls, em, deliveries,
                   handed, handleCalls, failures, adm, closed, exited>>
    /\ UNCHANGED <<initVars, request, logFile, clock, response, fnVars>>

(***************************************************************************)
(* WebhookPlugin.ShouldHandle applied to an entry, under a filter.         *)
(***************************************************************************)
\* the filters: each dimension empty, of one element and (the lists) of two
Filters ==
    {LogFilter(levels, sources, contains, startTime, endTime, fieldMatch) :
        levels \in {<<>>, <<(<<"e">>)>>, <<(<<"w">>), (<<"E">>)>>},
        sources \in {<<>>, <<(<<"m">>)>>, <<(<<"x">>), (<<"m">>)>>},
        contains \in {<<>>, <<(<<"1">>)>>, <<(<<"1">>), (<<"2">>)>>},
        startTime \in {NoTime, <<2>>},
        endTime \in {NoTime, <<3>>},
        fieldMatch \in {NoFields, Field("k", 1)}}

\* the entries
Entries ==
    {[LogEntry(ts, level, msg, source, 1) EXCEPT !.Fields = fields] :
        ts \in 1..4,
        level \in {INFO, ERROR},
        msg \in {<<"1">>, <<"2", "1">>, <<"1", "3", "2">>},
        source \in {<<>>, <<"m">>, <<"a", "m">>},
        fields \in {NoFields, Field("k", 1), Field("k", 2)}}

NoMatch == [filter |-> LogFilter(<<>>, <<>>, <<>>, NoTime, NoTime, NoFields),
            entry |-> NoEntry, done |-> FALSE, result |-> FALSE]

\* w.ShouldHandle(entry), w.Filter being match.filter
ShouldHandleCall ==
    /\ match # NoMatch
    /\ ~match.done
    /\ match' = [match EXCEPT !.done = TRUE,
                               !.result = WebhookShouldHandle(match.filter, match.entry)]
    /\ UNCHANGED <<heap, plugins, mu, debug, file, now, calls, em, deliveries,
                   handed, handleCalls, failures, adm, closed, exited>>
    /\ UNCHANGED <<initVars, httpVars, stamp, out>>

(***************************************************************************)
(* The timestamp of a line: l.logger.Printf writes it, extractTimestamp    *)
(* reads it.  An instant is [sec, half]: sec seconds since day 0, 00:00:00 *)
(* UTC, and half half-seconds more.                                        *)
(***************************************************************************)
\* the instants: every other hour from day 1, 00:00:00 UTC on, and each half
\* a second later
Instants == [sec : {Day + k * 2 * Hour : k \in 0..MaxStamp}, half : {0, 1}]

NoStamp == [pc |-> "idle", t |-> [sec |-> 0, half |-> 0], zone |-> 0, line |-> <<>>,
            parsed |-> [ok |-> FALSE, t |-> 0]]

\* the line the log package writes at instant t with log.LstdFlags: the date
\* and the time of day of t on the local clock, to the second
FormatHeader(t, zone, m) == FullLine((t.sec + zone) \div Day, (t.sec + zone) % Day, m)

\* l.logger.Printf("[%s] %s", level, msg) at instant stamp.t
Printf ==
    /\ stamp.pc = "emit"
    /\ stamp' = [stamp EXCEPT !.pc = "written",
                               !.line = FormatHeader(stamp.t, stamp.zone, 1)]
    /\ UNCHANGED <<heap, plugins, mu, debug, file, now, calls, em, deliveries,
                   handed, handleCalls, failures, adm, closed, exited>>
    /\ UNCHANGED <<initVars, httpVars, match, out>>

\* extractTimestamp(line) of the line written, in the same time zone
ExtractTimestamp ==
    /\ stamp.pc = "written"
    /\ stamp' = [stamp EXCEPT !.pc = "parsed",
                               !.parsed = extractTimestamp(stamp.line,
                                              [now |-> stamp.t.sec, zone |-> stamp.zone])]
    /\ UNCHANGED <<heap, plugins, mu, debug, file, now, calls, em, deliveries,
                   handed, handleCalls, failures, adm, closed, exited>>
    /\ UNCHANGED <<initVars, httpVars, match, out>>

(***************************************************************************)
(* l.logger.Printf: the log.Logger made by New serializes the calls of its *)
(* writer with a mutex.  The writers are the emitting calls and the        *)
(* delivery goroutines that log an error; the bytes of a line reach the    *)
(* file in one write call or more.                                         *)
(***************************************************************************)
Writers == 1..MaxWriters

\* no goroutine is in l.logger.Printf
NoOutput == [mu |-> 0, pc |-> [w \in Writers |-> "idle"], bytes |-> <<>>]

\* the bytes writer w has put in the file
Written(w) == Cardinality({i \in 1..Len(out.bytes) : out.bytes[i].w = w})

\* a Printf that does not take the mutex
OutLockFree(w) ==
    /\ out.pc[w] = "lock"
    /\ out' = [out EXCEPT !.pc[w] = "write"]
    /\ UNCHANGED <<heap, plugins, mu, debug, file, now, calls, em, deliveries,
                   handed, handleCalls, failures, adm, closed, exited>>
    /\ UNCHANGED <<initVars, httpVars, match, stamp>>

\* l.logger.Printf: the mutex of the log.Logger is taken
OutLock(w) ==
    /\ out.pc[w] = "lock"
    /\ out.mu = 0
    /\ out' = [out EXCEPT !.mu = w, !.pc[w] = "write"]
    /\ UNCHANGED <<heap, plugins, mu, debug, file, now, calls, em, deliveries,
                   handed, handleCalls, failures, adm, closed, exited>>
    /\ UNCHANGED <<initVars, httpVars, match, stamp>>

\* the writer of the log.Logger puts the next bytes of the line in the file
Write(w) ==
    /\ out.pc[w] = "write"
    /\ out' = [out EXCEPT !.bytes = Append(@, [w |-> w, k |-> Written(w) + 1]),
                          !.pc[w] = IF Written(w) + 1 = MaxChunks THEN "unlock"
                                    ELSE "write"]
    /\ UNCHANGED <<heap, plugins, mu, debug, file, now, calls, em, deliveries,
                   handed, handleCalls, failures, adm, closed, exited>>
    /\ UNCHANGED <<initVars, httpVars, match, stamp>>

\* the mutex is released and Printf returns
OutUnlock(w) ==
    /\ out.pc[w] = "unlock"
    /\ out' = [out EXCEPT !.mu = IF @ = w THEN 0 ELSE @, !.pc[w] = "done"]
    /\ UNCHANGED <<heap, plugins, mu, debug, file, now, calls, em, deliveries,
                   handed, handleCalls, failures, adm, closed, exited>>
    /\ UNCHANGED <<initVars, httpVars, match, stamp>>

(***************************************************************************)
(* The logger after New(config), and its steps.                            *)
(***************************************************************************)
\* nothing has been logged and no goroutine of the logger runs
Quiet ==
    /\ mu = [w |-> FALSE, r |-> 0]
    /\ file = <<>>
    /\ now = 0
    /\ calls = <<>>
    /\ em = [e \in Emitters |-> IdleEmitter]
    /\ deliveries = EmptyBag
    /\ handed = EmptyBag
    /\ handleCalls = EmptyBag
    /\ failures = 0
    /\ adm = IdleAdmin(0)
    /\ closed = EmptyBag
    /\ exited = FALSE

\* Initialize has run and made the default logger
Initialized ==
    /\ defaultLogger = TRUE
    /\ once = [done |-> TRUE, m |-> ""]
    /\ ini = [c \in Callers |-> IdleInit]
    /\ runs = [body |-> 1, new |-> 1]
    /\ defaults = {}

\* no request is being served
NoHTTP ==
    /\ request = NoRequest
    /\ logFile = NoFile
    /\ clock = [now |-> 0, zone |-> 0]
    /\ response = NoResponse
    /\ srv = NoServe

\* no function is being applied on its own
NoCalls ==
    /\ match = NoMatch
    /\ stamp = NoStamp
    /\ out = NoOutput

Init ==
    /\ \E webhooks \in Configs :
          /\ heap = AddAll(<<>>, NilSlice, webhooks)[1]
          /\ plugins = AddAll(<<>>, NilSlice, webhooks)[2]
    /\ debug \in BOOLEAN
    /\ Quiet
    /\ Initialized
    /\ NoHTTP
    /\ NoCalls

Next ==
    \/ \E e \in Emitters : Debug(e)
    \/ \E e \in Emitters : \E level \in EmitLevels : Emit(e, level)
    \/ \E e \in Emitters : \E level \in EmitLevels : EmitWithFields(e, level)
    \/ \E e \in Emitters : BuildEntry(e)
    \/ \E e \in Emitters : RLock(e)
    \/ \E e \in Emitters : Snapshot(e)
    \/ \E e \in Emitters : Dispatch(e)
    \/ \E e \in Emitters : WriteLine(e)
    \/ \E e \in Emitters : Exit(e)
    \/ \E enabled \in BOOLEAN : SetDebug(enabled)
    \/ \E d \in BagToSet(deliveries) : \E ok \in BOOLEAN : Handle(d, ok)
    \/ \E p \in Plugins : AddLock(p)
    \/ AddBody
    \/ \E p \in Plugins : RemoveLock(p)
    \/ RemoveScan
    \/ RemoveShift
    \/ RemoveStore
    \/ Return

Spec == Init /\ [][Next]_vars

(***************************************************************************)
(* The process from its start: the goroutines that call Initialize and     *)
(* Default, and, once there is a default logger, the calls of SetDebug,    *)
(* AddPlugin and RemovePlugin on it.                                       *)
(***************************************************************************)
InitDefault ==
    /\ heap = <<>>
    /\ plugins = NilSlice
    /\ debug = FALSE
    /\ Quiet
    /\ defaultLogger = FALSE
    /\ once = [done |-> FALSE, m |-> ""]
    /\ ini = [c \in Callers |-> IdleInit]
    /\ runs = [body |-> 0, new |-> 0]
    /\ defaults = {}
    /\ NoHTTP
    /\ NoCalls

NextDefault ==
    \/ \E c \in Callers : InitializeCall(c)
    \/ \E c \in Callers : OnceDo(c)
    \/ \E c \in Callers : DoSlow(c)
    \/ \E c \in Callers : InitializeLoad(c)
    \/ \E c \in Callers : New(c)
    \/ \E c \in Callers : InitializeWebhook(c)
    \/ \E c \in Callers : OnceDone(c)
    \/ \E c \in Callers : InitializeReturn(c)
    \/ Default
    \/ defaultLogger /\ \E enabled \in BOOLEAN : SetDebug(enabled)
    \/ defaultLogger /\ \E p \in Plugins : AddLock(p)
    \/ defaultLogger /\ AddBody
    \/ defaultLogger /\ \E p \in Plugins : RemoveLock(p)
    \/ defaultLogger /\ RemoveScan
    \/ defaultLogger /\ RemoveShift
    \/ defaultLogger /\ RemoveStore
    \/ defaultLogger /\ Return

SpecInit == InitDefault /\ [][NextDefault]_vars

(***************************************************************************)
(* GetLogs applied to a request, over a log file, at some time.            *)
(***************************************************************************)
InitLogs ==
    /\ heap = <<>>
    /\ plugins = NilSlice
    /\ debug = FALSE
    /\ Quiet
    /\ Initialized
    /\ request \in Requests
    /\ logFile \in [state : FileStates, lines : Files]
    /\ clock \in [now : {Day + 2 * Hour}, zone : Zones]
    /\ response = NoResponse
    /\ srv = NoServe
    /\ NoCalls

NextLogs == GetLogs

SpecLogs == InitLogs /\ [][NextLogs]_vars

(***************************************************************************)
(* The server serves one request.                                          *)
(***************************************************************************)
InitServe ==
    /\ \E webhooks \in Configs :
          /\ heap = AddAll(<<>>, NilSlice, webhooks)[1]
          /\ plugins = AddAll(<<>>, NilSlice, webhooks)[2]
    /\ debug \in BOOLEAN
    /\ Quiet
    /\ Initialized
    /\ request = NoRequest
    /\ logFile = [state |-> "ok", lines |-> <<FullLine(1, Hour, 1)>>]
    /\ clock = [now |-> Day + 2 * Hour, zone |-> 0]
    /\ response = NoResponse
    /\ \E via \in {"router", "handler"} :
       \E path \in {DebugPath, LogPath, CustomersPath} :
       \E method \in {"GET", "POST", "PUT"} :
       \E cred \in BOOLEAN :
       \E body \in {"true", "false", "bad"} :
          srv = [NoServe EXCEPT !.pc = via, !.via = via, !.path = path,
                                !.method = method, !.cred = cred, !.body = body,
                                !.before = debug]
    /\ NoCalls

NextServe ==
    \/ ServeHTTP
    \/ \E e \in Emitters : RequireAuth(e)
    \/ \E e \in Emitters : SetDebugHandler(e)
    \/ GetLogsHandler
    \/ GetLogs
    \/ \E e \in Emitters : List(e)
    \/ \E e \in Emitters : Reply(e)
    \/ \E e \in Emitters : BuildEntry(e)
    \/ \E e \in Emitters : RLock(e)
    \/ \E e \in Emitters : Snapshot(e)
    \/ \E e \in Emitters : Dispatch(e)
    \/ \E e \in Emitters : WriteLine(e)
    \/ \E d \in BagToSet(deliveries) : \E ok \in BOOLEAN : Handle(d, ok)

SpecServe == InitServe /\ [][NextServe]_vars

(***************************************************************************)
(* ShouldHandle applied to an entry, under a filter.                       *)
(***************************************************************************)
InitFilter ==
    /\ heap = <<>>
    /\ plugins = NilSlice
    /\ debug = FALSE
    /\ Quiet
    /\ Initialized
    /\ NoHTTP
    /\ match \in [filter : Filters, entry : Entries, done : {FALSE}, result : {FALSE}]
    /\ stamp = NoStamp
    /\ out = NoOutput

NextFilter == ShouldHandleCall

SpecFilter == InitFilter /\ [][NextFilter]_vars

(***************************************************************************)
(* Goroutines call l.logger.Printf at the same time.                       *)
(***************************************************************************)
InitWrite ==
    /\ heap = <<>>
    /\ plugins = NilSlice
    /\ debug = FALSE
    /\ Quiet
    /\ Initialized
    /\ NoHTTP
    /\ match = NoMatch
    /\ stamp = NoStamp
    /\ \E calling \in (SUBSET Writers) \ {{}} :
          out = [NoOutput EXCEPT
                    !.pc = [w \in Writers |-> IF w \in calling THEN "lock" ELSE "idle"]]

NextWrite ==
    \/ \E w \in Writers : OutLock(w)
    \/ \E w \in Writers : Write(w)
    \/ \E w \in Writers : OutUnlock(w)

SpecWrite == InitWrite /\ [][NextWrite]_vars

(***************************************************************************)
(* A line written at some instant, in some time zone, and read back.       *)
(***************************************************************************)
InitStamp ==
    /\ heap = <<>>
    /\ plugins = NilSlice
    /\ debug = FALSE
    /\ Quiet
    /\ Initialized
    /\ NoHTTP
    /\ match = NoMatch
    /\ \E t \in Instants : \E zone \in Zones :
          stamp = [NoStamp EXCEPT !.pc = "emit", !.t = t, !.zone = zone]
    /\ out = NoOutput

NextStamp == Printf \/ ExtractTimestamp

SpecStamp == InitStamp /\ [][NextStamp]_vars

(***************************************************************************)
(* Emitting calls run to their end whatever the deliveries do: the steps   *)
(* of an emitting call and of a running AddPlugin or RemovePlugin are      *)
(* scheduled, those of the delivery goroutines (p.Handle may never return) *)
(* need not be.                                                            *)
(***************************************************************************)
EmitterStep(e) ==
    BuildEntry(e) \/ RLock(e) \/ Snapshot(e) \/ Dispatch(e) \/ WriteLine(e) \/ Exit(e)

AdminStep == AddBody \/ RemoveScan \/ RemoveShift \/ RemoveStore \/ Return

FairSpec ==
    /\ Spec
    /\ \A e \in Emitters : WF_vars(EmitterStep(e))
    /\ WF_vars(AdminStep)

\* a step of a delivery goroutine
DeliveryStep == \E d \in BagToSet(deliveries) : \E ok \in BOOLEAN : Handle(d, ok)

\* the goroutines of the deliveries are scheduled too, and Handle returns
FairDeliveries ==
    /\ FairSpec
    /\ WF_vars(DeliveryStep)

(***************************************************************************)
(* The claims about the logger.                                            *)
(***************************************************************************)
\* the loop of an emitting call over its plugins has ended
DispatchDone(e) == em[e].pc = "loop" /\ em[e].idx = em[e].snap.len

\* the deliveries of entry to plugin p started so far
HandedCount(p, entry) == CopiesIn(Delivery(p, entry), handed)

\* the line of entry is in the file
HasLine(entry) == \E i \in DOMAIN file : file[i] = LineOf(entry)

\* the line of call c is in the file
CallHasLine(c) == \E i \in DOMAIN file : file[i].Message = MessageOf(c)

\* q without its first element equal to p
WithoutFirst(p, q) ==
    LET first == CHOOSE i \in 1..Len(q) : q[i] = p /\ \A k \in 1..(i - 1) : q[k] # p
    IN  SubSeq(q, 1, first - 1) \o SubSeq(q, first + 1, Len(q))

\* C1: when the loop of an emitting call has ended, every plugin that was in
\* the registry when the snapshot was taken has been handed the entry once
\* per registration it had then, if it should handle the entry: none twice,
\* none skipped, whatever AddPlugin and RemovePlugin did meanwhile.  It is
\* stated here of the plugins that no RemovePlugin call has been about since
\* the emitting call started, the ones "another sink was removed" is about.
C1_SnapshotDispatch ==
    \A e \in Emitters :
        DispatchDone(e) =>
            \A p \in em[e].present :
                ShouldHandle(p, em[e].entry) =>
                    HandedCount(p, em[e].entry) = Count(p, em[e].snapReg)

C3_EmitNeverWaits ==
    /\ [](\A e \in Emitters :
            em[e].pc = "loop" =>
                \A p \in Plugins :
                    HandedCount(p, em[e].entry) =
                        IF ShouldHandle(p, em[e].entry) THEN Count(p, em[e].read) ELSE 0)
    /\ \A e \in Emitters :
          (em[e].pc # "idle") ~> (em[e].pc = "idle" \/ exited)

\* the call has returned and its line is written while one delivery of its
\* entry has failed and another has not returned
C3_Witness ==
    \E d1 \in BagToSet(deliveries) : \E d2 \in BagToSet(handleCalls) :
        /\ d1.entry = d2.entry
        /\ d1.p # d2.p
        /\ failures > 0
        /\ HasLine(d1.entry)
        /\ \A e \in Emitters : em[e].pc = "idle"

\* the failures that have been logged
ErrorLines == {i \in DOMAIN file : file[i].Message = PluginErrorMessage}

\* Handle is invoked once per delivery started
NoRetry ==
    \A d \in BagToSet(handleCalls) : CopiesIn(d, handleCalls) <= CopiesIn(d, handed)

\* a call that has passed Debug's test and is not running has written its line
CallsComplete ==
    \A c \in DOMAIN calls :
        (calls[c].enabled /\ \A e \in Emitters : em[e].call # c) => CallHasLine(c)

\* C4 as stated: the line of a failed delivery is the line of an emitting
\* call, as an Error call would make it; no delivery is retried; the call
\* that emitted the entry completes.
C4_FailureThroughEmission ==
    /\ \A i \in DOMAIN file :
          \E c \in DOMAIN calls :
              file[i].Level = calls[c].level /\ file[i].Message = MessageOf(c)
    /\ NoRetry
    /\ CallsComplete

\* C4 as amended: every failed delivery is written once as an ERROR line by
\* the delivery goroutine itself, with no entry built for it and no delivery
\* of it started; no delivery is retried; the call that emitted the entry
\* completes.
C4_FailureLoggedDirectly ==
    /\ Cardinality(ErrorLines) = failures
    /\ \A i \in ErrorLines : file[i].Level = ERROR /\ file[i].Source = <<>>
    /\ now <= Len(calls)
    /\ \A i \in DOMAIN file \ ErrorLines :
          \E c \in DOMAIN calls :
              file[i].Level = calls[c].level /\ file[i].Message = MessageOf(c)
    /\ \A d \in BagToSet(handed) : LineOf(d.entry) # PluginErrorLine
    /\ NoRetry
    /\ CallsComplete

\* a delivery has failed and is logged, and the call has returned with its
\* line written
C4_Witness ==
    /\ failures > 0
    /\ ErrorLines # {}
    /\ \E c \in DOMAIN calls : CallHasLine(c)
    /\ \A e \in Emitters : em[e].pc = "idle"

\* C5: a Debug call that finds debug mode disabled when it starts has no
\* effect: it is not running, no line of it is in the file and no delivery of
\* it has been started; every DEBUG line is that of a Debug call that found
\* debug mode enabled.
C5_DebugDisabledDrops ==
    /\ \A c \in DOMAIN calls :
          (calls[c].level = DEBUG /\ ~calls[c].enabled) =>
              /\ \A e \in Emitters : em[e].call # c
              /\ ~CallHasLine(c)
              /\ \A d \in BagToSet(handed) : d.entry.Message # MessageOf(c)
    /\ \A i \in DOMAIN file :
          file[i].Level = DEBUG =>
              \E c \in DOMAIN calls :
                  /\ calls[c].level = DEBUG /\ calls[c].enabled
                  /\ file[i].Message = MessageOf(c)

\* a Debug call was dropped while a plugin that handles every entry is
\* registered
C5_Witness ==
    /\ \E c \in DOMAIN calls : calls[c].level = DEBUG /\ ~calls[c].enabled
    /\ ~debug
    /\ "A" \in Range(Registry)
    /\ adm.ops > 0

\* an AddPlugin call is about to return
AddReturns == adm.pc = "ret" /\ adm.op = "add"

\* a RemovePlugin call is about to return
RemoveReturns == adm.pc = "ret" /\ adm.op = "remove"

\* C7: AddPlugin of a plugin whose Initialize fails returns an error and
\* leaves the registry as it was; otherwise it appends the plugin, and every
\* emitting call that starts after it returned hands the entry to the plugin
\* (while it stays registered) when the plugin should handle it.
C7_AddPlugin ==
    /\ AddReturns =>
          IF InitializeFails(adm.p)
          THEN adm.ret = "err" /\ Registry = adm.before
          ELSE adm.ret = "nil" /\ Registry = Append(adm.before, adm.p)
    /\ \A e \in Emitters :
          DispatchDone(e) =>
              \A p \in em[e].present :
                  ShouldHandle(p, em[e].entry) => HandedCount(p, em[e].entry) >= 1

\* no delivery of an entry is started for a plugin that has not been
\* registered since the call started
AbsentNotHanded ==
    \A e \in Emitters : \A p \in em[e].absent : HandedCount(p, em[e].entry) = 0

\* C8 as stated: RemovePlugin of a registered plugin closes it and leaves no
\* registration of it, also when Close fails and when it was registered more
\* than once; a call that starts afterwards does not hand it an entry.
C8_RemoveRegistered ==
    /\ (RemoveReturns /\ Count(adm.p, adm.before) > 0) =>
          adm.closes = <<adm.p>> /\ Count(adm.p, Registry) = 0
    /\ AbsentNotHanded

\* C8 as amended: RemovePlugin of a registered plugin calls Close on it once;
\* when Close fails it returns an error and leaves the registry as it was;
\* otherwise it removes the first registration of the plugin and no other.  A
\* plugin that is not registered when an emitting call starts, and is not
\* added meanwhile, is not handed the entry.
C8_RemoveFirstRegistration ==
    /\ (RemoveReturns /\ Count(adm.p, adm.before) > 0) =>
          /\ adm.closes = <<adm.p>>
          /\ IF CloseFails(adm.p)
             THEN adm.ret = "err" /\ Registry = adm.before
             ELSE adm.ret = "nil" /\ Registry = WithoutFirst(adm.p, adm.before)
    /\ AbsentNotHanded

\* an emitting call that started after a plugin was closed and removed has
\* ended its loop over the plugins that are left
C8_Witness ==
    \E e \in Emitters : \E p \in em[e].absent :
        /\ DispatchDone(e)
        /\ em[e].read # <<>>
        /\ BagIn(p, closed)

\* C9: RemovePlugin of a plugin that is not registered returns an error,
\* calls Close on no plugin and leaves the registry as it was.
C9_RemoveUnregistered ==
    (RemoveReturns /\ Count(adm.p, adm.before) = 0) =>
        adm.ret = "err" /\ adm.closes = <<>> /\ Registry = adm.before

\* RemovePlugin of an unregistered plugin returns while others are registered
C9_Witness ==
    RemoveReturns /\ Count(adm.p, adm.before) = 0 /\ adm.before # <<>>

\* the steps of a call of Initialize that began after once.Do had completed
LateStep(c) == ini[c].pc # "idle" /\ ini[c].late /\ ini'[c] # ini[c]

\* C6: the body of once.Do and New run at most once, and exactly once when a
\* call of Initialize has returned; no step of a call of Initialize that
\* began after once.Do had completed changes the default logger or its
\* plugins; Default panics exactly when New had made no logger.
C6_ConstructedOnce ==
    /\ [](/\ runs.body <= 1
          /\ runs.new <= runs.body
          /\ (\E c \in Callers : ini[c].ret # "") => runs.body = 1
          /\ \A d \in defaults : d.panics <=> ~d.constructed)
    /\ [][\A c \in Callers :
            LateStep(c) =>
                UNCHANGED <<defaultLogger, once, runs, heap, plugins, debug, file>>]_vars

\* a call of Initialize that began after once.Do had completed returns, when
\* the logger has plugins and an AddPlugin or RemovePlugin call has been made
\* on it since; Default has panicked before and has returned the logger since
C6_Witness ==
    /\ \E c \in Callers : ini[c].late /\ ini[c].pc = "ret"
    /\ runs.body = 1
    /\ Registry # <<>>
    /\ adm.ops > 0
    /\ \E d \in defaults : d.panics
    /\ \E d \in defaults : ~d.panics

\* the last n lines of a file, oldest first
LastOf(lines, n) ==
    LET k == IF n < Len(lines) THEN n ELSE Len(lines)
    IN  SubSeq(lines, Len(lines) - k + 1, Len(lines))

\* the request is answered, asked for the last N >= 1 lines and gave no
\* from_time, to_time or last_minutes, in a format there is, and the file reads
TailRetrieval ==
    /\ response # NoResponse
    /\ request.method \in {"GET", "POST"}
    /\ request.last_lines.set /\ request.last_lines.ok /\ request.last_lines.v >= 1
    /\ ~request.from_time.set /\ ~request.to_time.set /\ ~request.last_minutes.set
    /\ ValidFormat(request.format)
    /\ logFile.state = "ok"

\* C10: a tail retrieval of N >= 1 lines over a file of M lines answers 200
\* with exactly the last min(N, M) lines of the file, oldest first (in the csv
\* format, as the rows made of them).
C10_TailRetrieval ==
    TailRetrieval =>
        /\ response.status = 200 /\ ~response.panic
        /\ response.lines = LastOf(logFile.lines, request.last_lines.v)
        /\ request.format # "csv" => response.body = response.lines
        /\ request.format = "csv" => response.body = CSVRows(response.lines)

\* a tail retrieval of fewer lines than the file has, which are not all alike
C10_Witness ==
    /\ TailRetrieval
    /\ request.last_lines.v = 2
    /\ Len(logFile.lines) = 3
    /\ logFile.lines[1] # logFile.lines[2] /\ logFile.lines[2] # logFile.lines[3]
    /\ response.lines = SubSeq(logFile.lines, 2, 3)

(***************************************************************************)
(* Range retrieval.                                                        *)
(***************************************************************************)
\* the request is answered, its parameters parse, its format is one there is
\* and the file reads
Served ==
    /\ response # NoResponse
    /\ request.method \in {"GET", "POST"}
    /\ request.from_time.ok /\ request.to_time.ok
    /\ request.last_lines.ok /\ request.last_minutes.ok
    /\ ValidFormat(request.format)
    /\ logFile.state = "ok"

\* the lower bound in effect, [nil, v]: that of last_minutes, else from_time,
\* else an hour before to_time
BoundFrom ==
    IF request.last_minutes.set THEN Ptr(clock.now - request.last_minutes.v * Minute)
    ELSE IF request.from_time.set THEN Ptr(request.from_time.v)
    ELSE IF request.to_time.set THEN Ptr(request.to_time.v - Hour)
    ELSE Nil

\* the upper bound in effect: that of last_minutes, else to_time
BoundTo ==
    IF request.last_minutes.set THEN Ptr(clock.now)
    ELSE IF request.to_time.set THEN Ptr(request.to_time.v)
    ELSE Nil

\* the positions of the lines of the file whose timestamp parses and lies
\* within the bounds lo and hi, both inclusive, nil for no bound
Within(lo, hi) ==
    {i \in 1..Len(logFile.lines) :
        LET ts == extractTimestamp(logFile.lines[i], clock)
        IN  /\ ts.ok
            /\ lo.nil \/ lo.v <= ts.t
            /\ hi.nil \/ ts.t <= hi.v}

\* lines is the lines of the file at the positions of S, in file order: the
\* line at a position of S is the one of lines at its rank in S
IsSelection(lines, S) ==
    /\ Len(lines) = Cardinality(S)
    /\ \A i \in S : lines[Cardinality({j \in S : j <= i})] = logFile.lines[i]

\* C11: when a time bound is in effect, the request is answered 200 with
\* exactly the lines of the file whose leading timestamp parses and lies
\* between the bounds, both inclusive and an absent bound unbounded, in file
\* order; a line whose timestamp does not parse is left out and changes
\* nothing else of the response.
C11_RangeRetrieval ==
    (Served /\ (~BoundFrom.nil \/ ~BoundTo.nil)) =>
        /\ response.status = 200 /\ ~response.panic
        /\ IsSelection(response.lines, Within(BoundFrom, BoundTo))

\* a range retrieval over a file with a line at each bound and a line without
\* a timestamp between them: the two lines at the bounds are the answer
C11_Witness ==
    /\ Served
    /\ request.from_time = Given(Day + Hour) /\ request.to_time = Given(Day + 3 * Hour)
    /\ ~request.last_minutes.set
    /\ Len(logFile.lines) = 3
    /\ logFile.lines[2] = PlainLine(4)
    /\ extractTimestamp(logFile.lines[1], clock).t = Day + Hour
    /\ extractTimestamp(logFile.lines[3], clock).t = Day + 3 * Hour
    /\ response.status = 200
    /\ response.lines = <<logFile.lines[1], logFile.lines[3]>>

\* C12: when last_minutes = m is given, the answer is the lines from
\* now - m minutes to now, whatever from_time and to_time were supplied.
C12_LastMinutes ==
    (Served /\ request.last_minutes.set) =>
        /\ response.status = 200 /\ ~response.panic
        /\ IsSelection(response.lines,
                       Within(Ptr(clock.now - request.last_minutes.v * Minute),
                              Ptr(clock.now)))

\* last_minutes with a from_time and a to_time that admit lines the last
\* minutes do not: a line before now - m minutes, one at now and one after now
\* are in the file, and the one at now is the answer
C12_Witness ==
    /\ Served
    /\ request.last_minutes = Given(30)
    /\ request.from_time = Given(Day + Hour) /\ request.to_time = Given(Day + 3 * Hour)
    /\ logFile.lines = <<FullLine(1, Hour, 1), FullLine(1, 2 * Hour, 2),
                         WordyLine(1, 3 * Hour, 5)>>
    /\ clock.now = Day + 2 * Hour
    /\ response.lines = <<FullLine(1, 2 * Hour, 2)>>

\* C13: a request with none of last_lines, last_minutes, from_time and to_time
\* is answered with the last 100 lines of the file (all of them when it has
\* fewer); a request with a to_time and no from_time (and no last_minutes) is
\* answered with the lines from an hour before to_time to to_time.
C13_Defaults ==
    /\ (/\ Served
        /\ ~request.last_lines.set /\ ~request.last_minutes.set
        /\ ~request.from_time.set /\ ~request.to_time.set) =>
            /\ response.status = 200 /\ ~response.panic
            /\ response.lines = LastOf(logFile.lines, 100)
    /\ (/\ Served
        /\ request.to_time.set
        /\ ~request.from_time.set /\ ~request.last_minutes.set) =>
            /\ response.status = 200 /\ ~response.panic
            /\ IsSelection(response.lines,
                           Within(Ptr(request.to_time.v - 60 * 60),
                                  Ptr(request.to_time.v)))

\* a request without parameters over a file of 101 lines is answered with its
\* lines 2 to 101
C13_Witness ==
    /\ Served
    /\ ~request.last_lines.set /\ ~request.last_minutes.set
    /\ ~request.from_time.set /\ ~request.to_time.set
    /\ Len(logFile.lines) = 101
    /\ Len(response.lines) = 100
    /\ response.lines[1] = logFile.lines[2]
    /\ response.lines[100] = logFile.lines[101]

(***************************************************************************)
(* The csv format.                                                         *)
(***************************************************************************)
\* the positions of the selected lines that split into four parts
FourParts == {i \in 1..Len(response.lines) : Len(response.lines[i]) >= 4}

\* the row of a line of four parts: date and time, the level without its
\* brackets, and the rest of the line
RowOf(line) ==
    <<<<line[1], line[2]>>, [k |-> line[3].k, v |-> line[3].v, br |-> FALSE],
      [j \in 1..(Len(line) - 3) |-> line[j + 3]]>>

\* C19: a request answered in the csv format has the header Timestamp, Level,
\* Message and then exactly one row per selected line that splits into four
\* parts, in the order of the lines; a line of fewer parts makes no row and
\* the request is still answered 200.
C19_CSV ==
    (Served /\ request.format = "csv" /\ ~response.panic) =>
        /\ response.status = 200
        /\ response.contentType = "text/csv"
        /\ Len(response.body) = 1 + Cardinality(FourParts)
        /\ response.body[1] = <<"Timestamp", "Level", "Message">>
        /\ \A i \in FourParts :
              response.body[1 + Cardinality({j \in FourParts : j <= i})]
                  = RowOf(response.lines[i])

\* a csv answer of three selected lines: a line of five parts, one of three
\* ("15:04:05 [INFO] message") and one of four make two rows
C19_Witness ==
    /\ Served /\ request.format = "csv"
    /\ response.lines = <<WordyLine(1, 3 * Hour, 5), TimeLine(Hour, 3), FullLine(1, Hour, 1)>>
    /\ Len(response.body) = 3
    /\ Len(response.body[2][3]) = 2
    /\ Len(response.body[3][3]) = 1

(***************************************************************************)
(* The status of a GetLogs response.                                       *)
(***************************************************************************)
\* C15: a request of another method than GET and POST is answered 405; else
\* one with a parameter that does not parse, or a format outside json,
\* jsonpretty, csv and text (none standing for json), is answered 400; else
\* one whose log file cannot be opened or read is answered 500; every other
\* request is answered 200. (from_time and to_time are the parameters the
\* statement names; last_lines and last_minutes that do not parse are taken
\* with them.)
C15_StatusMapping ==
    response # NoResponse =>
        IF request.method \notin {"GET", "POST"}
        THEN response.status = 405
        ELSE IF \/ ~request.from_time.ok \/ ~request.to_time.ok
                \/ ~request.last_lines.ok \/ ~request.last_minutes.ok
                \/ request.format \notin {"", "json", "jsonpretty", "csv", "text"}
        THEN response.status = 400
        ELSE IF logFile.state # "ok"
        THEN response.status = 500
        ELSE response.status = 200

(***************************************************************************)
(* The filter of a webhook plugin.                                         *)
(***************************************************************************)
\* the elements of a list
Elements(list) == {list[i] : i \in 1..Len(list)}

\* s occurs in t
Occurs(s, t) == \E prefix, suffix \in SeqsUpTo(Elements(t), Len(t)) : t = prefix \o s \o suffix

\* a string in upper case
Upper(s) == [i \in 1..Len(s) |-> ToUpper(s[i])]

\* the dimensions of the filter of the call that are not empty
Dimensions ==
    LET f == match.filter
    IN  {d \in {"levels", "sources", "contains", "startTime", "endTime", "fieldMatch"} :
            CASE d = "levels" -> f.Levels # <<>>
              [] d = "sources" -> f.Sources # <<>>
              [] d = "contains" -> f.Contains # <<>>
              [] d = "startTime" -> f.StartTime # NoTime
              [] d = "endTime" -> f.EndTime # NoTime
              [] d = "fieldMatch" -> DOMAIN f.FieldMatch # {}}

\* the entry of the call satisfies dimension d of its filter
Satisfied(d) ==
    LET f == match.filter
        e == match.entry
    IN  CASE d = "levels" -> Upper(e.Level) \in {Upper(l) : l \in Elements(f.Levels)}
          [] d = "sources" -> \E s \in Elements(f.Sources) : Occurs(s, e.Source)
          [] d = "contains" -> \A s \in Elements(f.Contains) : Occurs(s, e.Message)
          [] d = "startTime" -> f.StartTime[1] <= e.Timestamp
          [] d = "endTime" -> e.Timestamp <= f.EndTime[1]
          [] d = "fieldMatch" ->
                \A key \in DOMAIN f.FieldMatch :
                    /\ key \in DOMAIN e.Fields
                    /\ e.Fields[key] = f.FieldMatch[key]

C14_RoundTrip ==
    stamp.pc = "parsed" => stamp.parsed.ok /\ stamp.parsed.t = stamp.t.sec

(***************************************************************************)
(* The endpoints of the logger.                                            *)
(***************************************************************************)
\* the request has been answered
Answered ==
    \/ srv.pc = "done"
    \/ srv.pc = "getlogs" /\ response # NoResponse

\* the status of the answer
Status == IF srv.pc = "getlogs" THEN response.status ELSE srv.status

\* C16: a request to SetDebug of another method than POST is answered 405
\* and a POST whose body does not decode 400, and both leave l.debug as it
\* was; a POST whose body decodes is answered 200, sets l.debug to the
\* enabled of the body and echoes the settings.
C16_SetDebugEndpoint ==
    (Answered /\ srv.path = DebugPath) =>
        /\ srv.method # "POST" => Status = 405 /\ debug = srv.before
        /\ (srv.method = "POST" /\ srv.body = "bad") =>
               Status = 400 /\ debug = srv.before
        /\ (srv.method = "POST" /\ srv.body # "bad") =>
               /\ Status = 200
               /\ debug = (srv.body = "true")
               /\ srv.echo = srv.body

\* a POST of {"enabled": true} to the handler while l.debug is off has been
\* answered 200: l.debug is on and the line of the Info call is in the file
C16_Witness ==
    /\ Answered /\ srv.path = DebugPath
    /\ srv.method = "POST" /\ srv.body = "true" /\ ~srv.before
    /\ Status = 200 /\ debug /\ srv.echo = "true"
    /\ \E i \in 1..Len(file) : file[i].Level = INFO

\* C17: a request that reaches the router for /api/loggersettings/debug or
\* /api/logging/log, of a method of the route, without a valid JWT or API key
\* is answered 401, leaves l.debug as it was and makes no log line.
C17_LoggerEndpointsAuth ==
    (/\ Answered
     /\ srv.via = "router"
     /\ srv.path \in {DebugPath, LogPath}
     /\ srv.method \in RouteMethods(srv.path)
     /\ ~srv.cred) =>
        /\ Status = 401
        /\ debug = srv.before
        /\ file = <<>>

(***************************************************************************)
(* Fatal.                                                                  *)
(***************************************************************************)
\* the calls of Fatal
FatalCalls == {c \in 1..Len(calls) : calls[c].level = FATAL}

\* C20: Fatal logs, then ends the process: when the process has exited, the
\* FATAL line of the call is in the file, whole; once that line is written
\* the caller does nothing but exit; and after the exit no goroutine takes a
\* step, so that the deliveries that were started may never finish.
C20_FatalLogsThenExits ==
    /\ [](exited => \E c \in FatalCalls :
                        \E i \in DOMAIN file :
                            file[i].Message = MessageOf(c) /\ file[i].Level = FATAL)
    /\ [](\A c \in FatalCalls :
            CallHasLine(c) => exited \/ \E e \in Emitters : em[e].pc = "exit")
    /\ [][\A e \in Emitters : em[e].pc = "exit" => em'[e] = em[e]]_vars
    /\ [][exited => UNCHANGED vars]_vars

\* the process has exited after a Fatal whose line is in the file, while a
\* delivery of its entry had been started and has not finished
C20_Witness ==
    /\ exited
    /\ \E c \in FatalCalls : CallHasLine(c)
    /\ \E d \in BagToSet(deliveries) : d.entry.Level = FATAL

(***************************************************************************)
(* The lines of concurrent writers.                                        *)
(***************************************************************************)
\* the positions of the bytes of writer w in the file
BytesOf(w) == {i \in 1..Len(out.bytes) : out.bytes[i].w = w}

\* C22: whatever the interleaving of the goroutines that write a line, the
\* bytes of a line are next to each other in the file and in their order (no
\* byte of another line lies between them), and a writer that has returned
\* has put exactly one whole line in the file.
C22_WritesSerialized ==
    \A w \in Writers :
        /\ \A i, j \in BytesOf(w) :
              out.bytes[j].k = out.bytes[i].k + 1 => j = i + 1
        /\ \A i \in BytesOf(w) : out.bytes[i].k = 1 \/ (i - 1) \in BytesOf(w)
        /\ out.pc[w] = "done" =>
              {out.bytes[i].k : i \in BytesOf(w)} = 1..MaxChunks
              /\ Cardinality(BytesOf(w)) = MaxChunks

\* three writers were in Printf at the same time and have returned: the file
\* holds three whole lines, the one of writer 1 not first
C22_Witness ==
    /\ \A w \in 1..3 : out.pc[w] = "done"
    /\ Len(out.bytes) >= 3 * MaxChunks
    /\ out.bytes[1].w # 1

Sited(x) == x.Source # <<>> /\ x.Line # 0
Siteless(x) == x.Source = <<>> /\ x.Line = 0

\* C24: every DEBUG entry that is built, dispatched or written carries a
\* source and a line, also when SetDebug runs while the Debug call does;
\* every entry of another level has an empty source and line 0.
C24_CallSite ==
    /\ \A e \in Emitters :
          em[e].entry # NoEntry =>
              IF em[e].entry.Level = DEBUG THEN Sited(em[e].entry)
              ELSE Siteless(em[e].entry)
    /\ \A d \in BagToSet(handed) :
          IF d.entry.Level = DEBUG THEN Sited(d.entry) ELSE Siteless(d.entry)
    /\ \A i \in 1..Len(file) :
          IF file[i].Level = DEBUG THEN Sited(file[i]) ELSE Siteless(file[i])

(***************************************************************************)
(* Handle and Close.                                                       *)
(***************************************************************************)
\* p.Close() has run in a RemovePlugin that took p out of the registry, and
\* no AddPlugin has initialized and registered p again
Retired(p) ==
    /\ BagIn(p, closed)
    /\ p \notin Range(Registry)
    /\ adm.pc = "idle"

\* C25: Handle is never invoked on a plugin after its Close, run by
\* RemovePlugin, has completed: no step taken while a plugin is retired is a
\* call of its Handle.
C25_HandleWhileActive ==
    [][\A d \in BagToSet(handleCalls') :
          Retired(d.p) => CopiesIn(d, handleCalls') = CopiesIn(d, handleCalls)]_vars

(***************************************************************************)
(* What a nil error of Initialize means.                                   *)
(***************************************************************************)
\* C26: whenever a call of Initialize has returned a nil error the default
\* logger has been constructed, so that Default() does not panic; also for
\* the calls made after an earlier call returned an error.
C26_NilMeansConstructed ==
    \A c \in Callers : ini[c].ret = "nil" => defaultLogger

(***************************************************************************)
(* Every request is answered.                                              *)
(***************************************************************************)
\* the request asks for the last N lines, whatever N is, and gives no
\* from_time, to_time or last_minutes
TailOfAny ==
    /\ request.last_lines.set /\ request.last_lines.ok
    /\ ~request.from_time.set /\ ~request.to_time.set /\ ~request.last_minutes.set

\* C27: GetLogs ends with an HTTP response for every request whose
\* last_lines and last_minutes parse, zero and negative values included: the
\* handler does not panic, and a tail retrieval of N lines answers with at
\* most max(N, 0) lines.
C27_AlwaysResponds ==
    (response # NoResponse /\ request.last_lines.ok /\ request.last_minutes.ok) =>
        /\ ~response.panic
        /\ response.status # 0
        /\ (TailOfAny /\ response.status = 200) =>
              Len(response.lines) <= (IF request.last_lines.v > 0
                                      THEN request.last_lines.v ELSE 0)

\* C28: a request with last_lines = N, N >= 1, that is answered 200 is
\* answered with at most N lines, with or without from_time, to_time or
\* last_minutes.
C28_AtMostN ==
    (/\ response # NoResponse
     /\ response.status = 200
     /\ request.last_lines.set /\ request.last_lines.ok
     /\ request.last_lines.v >= 1) =>
        Len(response.lines) <= request.last_lines.v

(***************************************************************************)
(* The deliveries of one emission.                                         *)
(***************************************************************************)
\* the deliveries of entry started so far, to whatever plugin
StartedFor(entry) ==
    BagCardinality([d \in {x \in BagToSet(handed) : x.entry = entry} |-> handed[d]])

Held == mu.w \/ mu.r > 0

====
